---- MODULE Spec2Model ----
(***************************************************************************)
(* Model of load_data.py: a one-shot batch import of bus-schedule CSV      *)
(* files into three tables (routes, trips, stop_times) through one         *)
(* SQLAlchemy session (autocommit=False, autoflush=False).                 *)
(*                                                                         *)
(* The database is modelled at the level the script observes it:           *)
(*   store    the committed contents of the three tables;                  *)
(*   db       what the session's open transaction sees (store plus the     *)
(*            rows it has flushed and not yet committed);                  *)
(*   pending  objects added to the session and not flushed yet.            *)
(* session.rollback() ends the WHOLE open transaction (there is no         *)
(* savepoint in the script), expunges the objects added in it and leaves   *)
(* the attributes of Python objects the script still holds unchanged.      *)
(* Sequences that generate primary keys are not transactional.             *)
(***************************************************************************)
EXTENDS Integers, Sequences, FiniteSets, TLC

\* ------------------------------------------------------------------ bounds
NumFiles  == 3      \* descriptors in files_to_load (10 in the script)
MaxRows   == 2      \* data rows of a CSV file
MaxFaults == 1      \* operations that raise in one run (see MayFail)
NumRuns   == 2      \* times the script is run in a row

Files == 1..NumFiles

\* --------------------------------------------------------- configuration
\* files_to_load: as in the script, several descriptors share a route name and
\* the stop lists differ in length.
files_to_load ==
    [f \in Files |->
        [file_name  |-> f,
         route_name |-> IF f % 2 = 1 THEN "terminal" ELSE "station",
         day_type   |-> IF f <= 2 THEN "weekday" ELSE "sunday",
         stops      |-> IF f % 2 = 1 THEN <<"dep", "arr">>
                                     ELSE <<"dep", "via", "arr">>]]

NotesCol == "notes"     \* the '운행 특이사항' column
Sentinel == "X"         \* the 'Χ' token

\* ------------------------------------------------------------ CSV reading
\* Texts pandas.read_csv turns into NaN (a part of its default na_values).
NaValues == {"", "NA"}
\* Texts that parse as integers, with their values.
IntTexts == {"7", "12"}
ToInt(t) == IF t = "7" THEN 7 ELSE 12

NaN == [kind |-> "nan"]
StrVal(t)   == [kind |-> "str", s |-> t]
IntVal(n)   == [kind |-> "int", n |-> n]
FloatVal(n) == [kind |-> "float", n |-> n]

\* dtype inference of read_csv for one column: all cells integer texts gives
\* int64, integer texts with blanks (or only blanks) gives float64, anything
\* else keeps the texts as objects.
column_dtype(rows, c) ==
    LET texts == {rows[k][c] : k \in 1..Len(rows)}
        data  == texts \ NaValues
    IN  IF data \subseteq IntTexts
        THEN (IF texts = data /\ data # {} THEN "int" ELSE "float")
        ELSE "object"

parse_cell(dtype, t) ==
    IF t \in NaValues THEN NaN
    ELSE IF dtype = "int" THEN IntVal(ToInt(t))
    ELSE IF dtype = "float" THEN FloatVal(ToInt(t))
    ELSE StrVal(t)

\* A file on disk: absent, undecodable, or a header and rows of raw texts.
Missing == [status |-> "missing"]
Corrupt == [status |-> "corrupt"]
Readable(cols, rws) == [status |-> "ok", columns |-> cols, rows |-> rws]

\* Variant of read_csv in which an undecodable file yields an empty DataFrame.
read_csv_permissive(file) ==
    IF file.status = "missing" THEN [ok |-> FALSE, df |-> <<>>]
    ELSE IF file.status = "corrupt" THEN [ok |-> TRUE, df |-> <<>>]
    ELSE [ok |-> TRUE,
          df |-> [k \in 1..Len(file.rows) |->
                    [c \in file.columns |->
                        parse_cell(column_dtype(file.rows, c), file.rows[k][c])]]]

\* pd.read_csv(file_name, encoding='cp949') and the two handlers around it:
\* ok is FALSE when the call ends in one of them.
read_csv(file) ==
    IF file.status # "ok" THEN [ok |-> FALSE, df |-> <<>>]
    ELSE [ok |-> TRUE,
          df |-> [k \in 1..Len(file.rows) |->
                    [c \in file.columns |->
                        parse_cell(column_dtype(file.rows, c), file.rows[k][c])]]]

\* pd.notna and str() on a cell value.
notna(v) == v.kind # "nan"
str(v) ==
    CASE v.kind = "str"   -> v.s
      [] v.kind = "int"   -> (IF v.n = 7 THEN "7" ELSE "12")
      [] v.kind = "float" -> (IF v.n = 7 THEN "7.0" ELSE "12.0")
      [] OTHER            -> "nan"

\* Variant of time_str without the pd.notna test.
time_str_unchecked(row, stop_col_name) ==
    IF stop_col_name \notin DOMAIN row THEN Sentinel
    ELSE str(row[stop_col_name])

\* Lines 101-104: the time text of one stop column of one row.
time_str(row, stop_col_name) ==
    IF stop_col_name \notin DOMAIN row THEN Sentinel
    ELSE IF notna(row[stop_col_name]) THEN str(row[stop_col_name]) ELSE Sentinel

\* Line 92: the notes of a Trip; None is modelled as the value "None".
None == "None"
notes_of(row) ==
    IF NotesCol \in DOMAIN row /\ notna(row[NotesCol]) THEN str(row[NotesCol])
    ELSE None

\* ------------------------------------------------------------- the session
EmptyDB  == [routes |-> {}, trips |-> {}, stop_times |-> {}]
InitSeqs == [route |-> 1, trip |-> 1, stop |-> 1]
NoRoute  == [route_id |-> 0, route_name |-> "", run |-> 0]

\* Variant of drop_all that leaves the tables as they are.
drop_all_skipped(st, sq) == [store |-> st, seqs |-> sq]

\* Base.metadata.drop_all / create_all on the engine: autocommitted DDL on a
\* connection of its own; the tables' key sequences are recreated with them.
drop_all(st, sq) == [store |-> EmptyDB, seqs |-> InitSeqs]

\* INSERT of the pending StopTimes during a flush: each gets the next key.
insert_stop_times(d, sq, pend) ==
    [db   |-> [d EXCEPT !.stop_times =
                 @ \cup {[stop_time_id  |-> sq.stop + k - 1,
                          trip_id       |-> pend[k].trip_id,
                          stop_name     |-> pend[k].stop_name,
                          time          |-> pend[k].time,
                          stop_sequence |-> pend[k].stop_sequence,
                          run           |-> pend[k].run] : k \in 1..Len(pend)}],
     seqs |-> [sq EXCEPT !.stop = @ + Len(pend)]]

\* Variants of session_rollback: one that does nothing, one that commits.
session_rollback_none(sess) == sess

session_rollback_commits(sess) ==
    [store |-> sess.db, db |-> sess.db, pending |-> <<>>]

\* session.rollback(): the open transaction is undone as a whole and every
\* object added in it is expunged.
session_rollback(sess) ==
    [store |-> sess.store, db |-> sess.store, pending |-> <<>>]

\* Variant of query_route without the filter_by.
query_route_unfiltered(d, route_name) ==
    IF d.routes = {} THEN NoRoute
    ELSE CHOOSE r \in d.routes : \A o \in d.routes : r.route_id <= o.route_id

\* session.query(Route).filter_by(route_name=route_name).first()
query_route(d, route_name) ==
    LET m == {r \in d.routes : r.route_name = route_name}
    IN  IF m = {} THEN NoRoute
        ELSE CHOOSE r \in m : \A o \in m : r.route_id <= o.route_id

\* ------------------------------------------------------------------- state
VARIABLES
    fs,          \* the input files on disk, by descriptor
    store, db, pending, seqs,
    run,         \* which run of the script this is
    pc,          \* position of the script
    config,      \* index of the descriptor being loaded
    df,          \* the DataFrame of the current file
    row_no,      \* index of the current row of df
    route,       \* local of load_csv_to_db
    new_trip,    \* trip_id of the Trip of the current row
    i,           \* index of the current stop column (1-based)
    faults,      \* exceptions raised by the environment in run 1
    outcome,     \* how the current run ended: "", "committed", "rolledback"
    returned,    \* history: Routes get_or_create_route returned in this run
    commits,     \* history: session.commit() calls that succeeded in this run
    prev_counts  \* history: table sizes at the end of the previous run

vars == <<fs, store, db, pending, seqs, run, pc, config, df, row_no, route,
          new_trip, i, faults, outcome, returned, commits, prev_counts>>

locals == <<config, df, row_no, route, new_trip, i>>
tables == <<store, db, pending, seqs>>
hist   == <<returned, commits, prev_counts>>

Counts(st) == [routes     |-> Cardinality(st.routes),
               trips      |-> Cardinality(st.trips),
               stop_times |-> Cardinality(st.stop_times)]

\* An operation that can raise: in the first run the environment decides, a
\* later run meets the same outcomes. At most MaxFaults operations raise in a
\* run, not counting the rollback of the row handler, which runs only after
\* something raised and ends the run when it raises itself.
Point(kind, f, r, k) == [kind |-> kind, file |-> f, row |-> r, stop |-> k]
MayFail(p) ==
    IF run = 1
    THEN (IF p.kind = "rollback"
             \/ Cardinality({q \in faults : q.kind # "rollback"}) < MaxFaults
          THEN {TRUE, FALSE} ELSE {FALSE})
    ELSE {p \in faults}
Record(p, x) == faults' = IF x /\ run = 1 THEN faults \cup {p} ELSE faults

\* The catalogue of input rows of Init: odd files have every configured column
\* and a notes column, even files lack the "arr" column and the notes.
CatalogueRow(f, r) ==
    IF f % 2 = 1
    THEN [c \in {"seq", "dep", "arr", NotesCol} |->
            CASE c = "seq"   -> (IF r = 1 THEN "7" ELSE "12")
              [] c = "dep"   -> "08:30"
              [] c = "arr"   -> (IF r = 1 THEN "" ELSE "09:10")
              [] OTHER       -> (IF r = 1 THEN "holiday" ELSE "NA")]
    ELSE [c \in {"dep", "via"} |->
            CASE c = "dep"   -> (IF r = 1 THEN "7" ELSE "")
              [] OTHER       -> "-"]
CatalogueFile(f, n) ==
    Readable(IF f % 2 = 1 THEN {"seq", "dep", "arr", NotesCol} ELSE {"dep", "via"},
             [r \in 1..n |-> CatalogueRow(f, r)])

InitRest ==
    /\ store = EmptyDB /\ db = EmptyDB /\ pending = <<>> /\ seqs = InitSeqs
    /\ run = 1 /\ pc = "drop"
    /\ config = 1 /\ df = <<>> /\ row_no = 1 /\ route = NoRoute
    /\ new_trip = 0 /\ i = 1
    /\ faults = {} /\ outcome = "" /\ returned = {} /\ commits = 0
    /\ prev_counts = Counts(EmptyDB)

\* Every file is absent, undecodable, empty (a header only) or has MaxRows rows.
Init ==
    /\ \E n \in [Files -> {-2, -1, 0, MaxRows}] :
          fs = [f \in Files |-> IF n[f] = -2 THEN Missing
                                ELSE IF n[f] = -1 THEN Corrupt
                                ELSE CatalogueFile(f, n[f])]
    /\ InitRest

\* ----------------------------------------------------------------- driver
Session == [store |-> store, db |-> db, pending |-> pending]

\* An exception reaches the handler of the driver (line 215).
Raise ==
    /\ pc' = "except_driver"
    /\ UNCHANGED <<tables, locals, outcome, hist>>

\* Lines 132-133: Base.metadata.drop_all(bind=engine).
DropAll ==
    /\ pc = "drop"
    /\ \E x \in MayFail(Point("drop_all", 0, 0, 0)) :
          /\ Record(Point("drop_all", 0, 0, 0), x)
          /\ IF x THEN Raise
             ELSE LET res == drop_all(store, seqs)
                  IN  /\ store' = res.store /\ db' = res.store /\ seqs' = res.seqs
                      /\ pc' = "create"
                      /\ UNCHANGED <<pending, locals, outcome, hist>>
    /\ UNCHANGED <<fs, run>>

\* Lines 134-135: Base.metadata.create_all(bind=engine); then the loop starts.
CreateAll ==
    /\ pc = "create"
    /\ \E x \in MayFail(Point("create_all", 0, 0, 0)) :
          /\ Record(Point("create_all", 0, 0, 0), x)
          /\ IF x THEN Raise
             ELSE /\ pc' = IF NumFiles >= 1 THEN "read" ELSE "commit"
                  /\ config' = 1
                  /\ UNCHANGED <<tables, df, row_no, route, new_trip, i, outcome, hist>>
    /\ UNCHANGED <<fs, run>>

\* Position after the descriptor f is done (line 202: the next descriptor, or
\* line 212 when the list is exhausted).
AfterFile(f) == IF f < NumFiles THEN "read" ELSE "commit"

\* Position after row r of a DataFrame of n rows (line 85: the next row, or
\* the end of load_csv_to_db).
AfterRow(f, r, n) == IF r < n THEN "trip" ELSE AfterFile(f)

\* Lines 71-79: read the file; a missing or unreadable file ends the call.
ReadCsv ==
    /\ pc = "read"
    /\ LET res == read_csv(fs[config])
       IN  IF res.ok
           THEN /\ df' = res.df
                /\ pc' = "route"
                /\ UNCHANGED <<config, row_no, route, new_trip, i>>
           ELSE /\ pc' = AfterFile(config)
                /\ config' = config + 1
                /\ UNCHANGED <<df, row_no, route, new_trip, i>>
    /\ UNCHANGED <<fs, run, tables, faults, outcome, hist>>

\* Leaving row r of a DataFrame of n rows in descriptor f: the next row, or
\* the return of load_csv_to_db and the next descriptor.
Leave(f, r, n) ==
    /\ pc' = AfterRow(f, r, n)
    /\ row_no' = IF r < n THEN r + 1 ELSE 1
    /\ config' = IF r < n THEN f ELSE f + 1

\* Lines 52-58 and 82: get_or_create_route. It runs outside every try block
\* of load_csv_to_db, so what it raises reaches the driver.
ResolveRoute ==
    /\ pc = "route"
    /\ LET name == files_to_load[config].route_name
           pq == Point("query", config, 0, 0)
           pf == Point("flush_route", config, 0, 0)
       IN  \E xq \in MayFail(pq) :
             IF xq THEN Record(pq, xq) /\ Raise
             ELSE LET found == query_route(db, name)
                  IN  IF found # NoRoute
                      THEN /\ route' = found
                           /\ returned' = returned \cup {found}
                           /\ Leave(config, 0, Len(df))
                           /\ UNCHANGED <<tables, df, new_trip, i, outcome,
                                          commits, prev_counts, faults>>
                      ELSE \E xf \in MayFail(pf) :
                             /\ Record(pf, xf)
                             /\ IF xf THEN Raise
                                ELSE LET new == [route_id   |-> seqs.route,
                                                 route_name |-> name,
                                                 run        |-> run]
                                         res == insert_stop_times(
                                                  [db EXCEPT !.routes = @ \cup {new}],
                                                  [seqs EXCEPT !.route = @ + 1],
                                                  pending)
                                     IN  /\ db' = res.db /\ seqs' = res.seqs
                                         /\ pending' = <<>>
                                         /\ route' = new
                                         /\ returned' = returned \cup {new}
                                         /\ Leave(config, 0, Len(df))
                                         /\ UNCHANGED <<store, df, new_trip, i,
                                                        outcome, commits, prev_counts>>
    /\ UNCHANGED <<fs, run>>

\* Variant of RaiseInRow without the row's try block.
RaiseInRowUncaught ==
    /\ pc' = "except_driver"
    /\ UNCHANGED <<store, db, pending, locals, outcome, hist>>

\* An exception inside the try block of a row reaches the handler of line 114.
RaiseInRow ==
    /\ pc' = "except_row"
    /\ UNCHANGED <<store, db, pending, locals, outcome, hist>>

\* Lines 88-95: build the Trip, add it and flush. The flush writes the Trip and
\* then the StopTimes still pending from the row before; the INSERT of a Trip
\* whose route_id names no row of routes violates the foreign key.
RowTrip ==
    /\ pc = "trip"
    /\ LET p == Point("trip", config, row_no, 0)
       IN  \E x \in MayFail(p) :
             /\ Record(p, x)
             /\ IF x THEN RaiseInRow /\ UNCHANGED seqs
                ELSE IF route.route_id \notin {r.route_id : r \in db.routes}
                THEN RaiseInRow /\ seqs' = [seqs EXCEPT !.trip = @ + 1]
                ELSE LET t == [trip_id  |-> seqs.trip,
                               route_id |-> route.route_id,
                               day_type |-> files_to_load[config].day_type,
                               notes    |-> notes_of(df[row_no]),
                               run      |-> run,
                               file     |-> config,
                               row      |-> row_no]
                         res == insert_stop_times(
                                  [db EXCEPT !.trips = @ \cup {t}],
                                  [seqs EXCEPT !.trip = @ + 1],
                                  pending)
                     IN  /\ db' = res.db /\ seqs' = res.seqs /\ pending' = <<>>
                         /\ new_trip' = t.trip_id
                         /\ i' = 1
                         /\ pc' = "stop"
                         /\ UNCHANGED <<store, config, df, row_no, route,
                                        outcome, hist>>
    /\ UNCHANGED <<fs, run>>

\* Lines 98-112: one turn of the stop loop; the StopTime is added, not flushed.
RowStop ==
    /\ pc = "stop"
    /\ LET p     == Point("stop", config, row_no, i)
           stops == files_to_load[config].stops
       IN  \E x \in MayFail(p) :
             /\ Record(p, x)
             /\ IF x THEN RaiseInRow /\ UNCHANGED seqs
                ELSE /\ pending' = Append(pending,
                            [trip_id       |-> new_trip,
                             stop_name     |-> stops[i],
                             time          |-> time_str(df[row_no], stops[i]),
                             stop_sequence |-> i,
                             run           |-> run])
                     /\ IF i < Len(stops)
                        THEN i' = i + 1 /\ UNCHANGED <<pc, row_no, config>>
                        ELSE i' = 1 /\ Leave(config, row_no, Len(df))
                     /\ UNCHANGED <<store, db, seqs, df, route, new_trip,
                                    outcome, hist>>
    /\ UNCHANGED <<fs, run>>

\* Lines 114-118: the handler of a row: session.rollback(), then the next row.
\* The local route keeps the attributes it had.
RowExcept ==
    /\ pc = "except_row"
    /\ LET p == Point("rollback", config, row_no, 0)
       IN  \E x \in MayFail(p) :
             /\ Record(p, x)
             /\ IF x THEN Raise
                ELSE LET s == session_rollback(Session)
                     IN  /\ store' = s.store /\ db' = s.db /\ pending' = s.pending
                         /\ Leave(config, row_no, Len(df))
                         /\ UNCHANGED <<seqs, df, route, new_trip, i, outcome, hist>>
    /\ UNCHANGED <<fs, run>>

\* Line 212: session.commit() flushes what is pending and commits.
Commit ==
    /\ pc = "commit"
    /\ LET p == Point("commit", 0, 0, 0)
       IN  \E x \in MayFail(p) :
             /\ Record(p, x)
             /\ IF x THEN Raise
                ELSE LET res == insert_stop_times(db, seqs, pending)
                     IN  /\ store' = res.db /\ db' = res.db /\ seqs' = res.seqs
                         /\ pending' = <<>>
                         /\ commits' = commits + 1
                         /\ outcome' = "committed"
                         /\ pc' = "close"
                         /\ UNCHANGED <<locals, returned, prev_counts>>
    /\ UNCHANGED <<fs, run>>

\* Lines 215-218: the handler of the driver rolls the session back. (If this
\* rollback raises, close() of line 220 discards the transaction all the same.)
DriverExcept ==
    /\ pc = "except_driver"
    /\ LET s == session_rollback(Session)
       IN  /\ store' = s.store /\ db' = s.db /\ pending' = s.pending
    /\ outcome' = "rolledback"
    /\ pc' = "close"
    /\ UNCHANGED <<fs, run, seqs, locals, faults, hist>>

\* Lines 219-220: session.close().
Close ==
    /\ pc = "close"
    /\ db' = store /\ pending' = <<>>
    /\ pc' = "done"
    /\ UNCHANGED <<fs, run, store, seqs, locals, faults, outcome, hist>>

\* The script is started again on the same files: a new process, a new session.
NextRun ==
    /\ pc = "done" /\ run < NumRuns
    /\ run' = run + 1
    /\ pc' = "drop"
    /\ config' = 1 /\ df' = <<>> /\ row_no' = 1 /\ route' = NoRoute
    /\ new_trip' = 0 /\ i' = 1
    /\ outcome' = "" /\ returned' = {} /\ commits' = 0
    /\ prev_counts' = Counts(store)
    /\ UNCHANGED <<fs, tables, faults>>

Next ==
    \/ DropAll \/ CreateAll \/ ReadCsv \/ ResolveRoute \/ RowTrip \/ RowStop
    \/ RowExcept \/ Commit \/ DriverExcept \/ Close \/ NextRun

Spec == Init /\ [][Next]_vars

\* A second specification for the cell texts: the first file holds any rows
\* with any subset of its configured columns present, the "dep" cells over the
\* texts of RawCells and the "arr" cells blank or a time; the other files are
\* absent or undecodable.
RawCells == {"", "NA", "08:30", "7"}
CellsOf(c) == IF c = "dep" THEN RawCells ELSE {"", "08:30"}
RowsOver(cols) ==
    {r \in [cols -> RawCells] : \A c \in cols : r[c] \in CellsOf(c)}
CellFrames ==
    UNION {UNION {{Readable(cols, rws) : rws \in [1..n -> RowsOver(cols)]}
                  : n \in 0..MaxRows}
           : cols \in SUBSET {"dep", "arr"}}

InitCells ==
    /\ \E file \in CellFrames :
          fs = [f \in Files |-> IF f = 1 THEN file
                                ELSE IF f % 2 = 0 THEN Missing ELSE Corrupt]
    /\ InitRest

SpecCells == InitCells /\ [][Next]_vars

\* ------------------------------------------------------------- properties
Names == {files_to_load[f].route_name : f \in Files}
Committed == pc \in {"close", "done"} /\ outcome = "committed"
InLoad == pc \in {"read", "route", "trip", "stop", "except_row"}
RowsOfRun(st, n) ==
    {r \in st.routes : r.run = n} \cup {t \in st.trips : t.run = n}
        \cup {x \in st.stop_times : x.run = n}
RowFaults == {p \in faults : p.kind \in {"trip", "stop"}}

\* C1: the handler of a row undoes only that row: what earlier rows and earlier
\* files put into the open transaction (Routes, Trips, StopTimes, flushed or
\* still pending) is still in it right after the handler.
C1_HandlerKeepsEarlierWork ==
    [][(pc = "except_row" /\ pc' # "except_driver") =>
         LET cur == {t.trip_id : t \in {u \in db.trips \ store.trips :
                                          u.file = config /\ u.row = row_no}}
             key(x) == <<x.trip_id, x.stop_sequence>>
         IN  /\ (db.routes \ store.routes) \subseteq db'.routes
             /\ {t \in db.trips \ store.trips : t.trip_id \notin cur}
                    \subseteq db'.trips
             /\ {x \in db.stop_times \ store.stop_times : x.trip_id \notin cur}
                    \subseteq db'.stop_times
             /\ \A k \in 1..Len(pending) :
                    pending[k].trip_id \notin cur =>
                        \/ \E m \in 1..Len(pending') : pending'[m] = pending[k]
                        \/ \E x \in db'.stop_times : key(x) = key(pending[k])
      ]_vars

\* C2: when every file is readable and exactly one row of the run fails while its
\* Trip or StopTimes are built, the committed store holds R-1 Trips of the file
\* of R rows that row is in.
C2_OneBadRowCostsOneTrip ==
    (Committed /\ \A f \in Files : fs[f].status = "ok") =>
        \A p \in faults :
            (faults = {p} /\ p.kind \in {"trip", "stop"}) =>
                Cardinality({t \in store.trips : t.file = p.file})
                    = Len(fs[p.file].rows) - 1

\* C3 (as stated): after the final commit the store holds exactly one Route for
\* every configured route name, and every Trip of a file configured with the
\* name references that Route.
C3_ExactlyOneRoutePerName ==
    Committed =>
        \A n \in Names :
            /\ Cardinality({r \in store.routes : r.route_name = n}) = 1
            /\ \A t \in store.trips :
                 files_to_load[t.file].route_name = n =>
                    \E r \in store.routes :
                        r.route_name = n /\ r.route_id = t.route_id

\* C3 (amended): after the final commit the store holds at most one Route for
\* every configured route name, exactly one for a name some stored Trip was
\* configured with, and every stored Trip references the Route of its name.
C3_AtMostOneRoutePerName ==
    Committed =>
        /\ \A n \in Names :
             Cardinality({r \in store.routes : r.route_name = n}) <= 1
        /\ \A t \in store.trips :
             \E r \in store.routes :
                /\ r.route_name = files_to_load[t.file].route_name
                /\ r.route_id = t.route_id

C3_Witness ==
    /\ Committed
    /\ \E f \in Files : fs[f].status # "ok"
    /\ \E t, u \in store.trips : t.file # u.file /\ t.route_id = u.route_id

\* C4: within one run every call of get_or_create_route with the same name
\* returns the same Route.
C4_SameRouteForSameName ==
    \A a, b \in returned : a.route_name = b.route_name => a.route_id = b.route_id

\* C5 (as stated): no step of load_csv_to_db passes an exception to the driver.
C5_NeverPropagates ==
    [][InLoad => pc' # "except_driver"]_vars

\* C5 (amended): load_csv_to_db passes an exception to the driver only from the
\* resolution of the Route and from a rollback of the row handler that itself
\* raised; a missing file, an unreadable file and a failing row whose rollback
\* succeeds never do.
C5_PropagatesOnlyRouteOrRollback ==
    [][(InLoad /\ pc' = "except_driver") =>
          \/ /\ pc = "route"
             /\ \E k \in {"query", "flush_route"} : Point(k, config, 0, 0) \in faults'
          \/ /\ pc = "except_row"
             /\ Point("rollback", config, row_no, 0) \in faults'
      ]_vars

C5_Witness ==
    /\ pc = "done" /\ outcome = "committed"
    /\ RowFaults # {}
    /\ \E f \in Files : fs[f].status = "missing"
    /\ \E f \in Files : fs[f].status = "corrupt"

\* C6: a file that is missing or cannot be decoded adds nothing and changes
\* nothing in the session, and the next descriptor is taken up; when nothing
\* else fails, the committed store holds exactly the Trips of the rows of the
\* readable files.
C6_BadFileIsSkipped ==
    /\ [][(pc = "read" /\ fs[config].status # "ok") =>
            /\ <<store, db, pending, seqs>>' = <<store, db, pending, seqs>>
            /\ config' = config + 1
            /\ pc' = AfterFile(config)
         ]_vars
    /\ []((Committed /\ faults = {}) =>
            /\ {<<t.file, t.row>> : t \in store.trips}
                 = {fr \in Files \X (1..MaxRows) :
                       /\ fs[fr[1]].status = "ok"
                       /\ fr[2] <= Len(fs[fr[1]].rows)}
            /\ Cardinality(store.trips)
                 = Cardinality({<<t.file, t.row>> : t \in store.trips}))

C6_Witness ==
    /\ Committed /\ faults = {}
    /\ \E f, g, h \in Files :
          /\ f < g /\ g < h
          /\ fs[g].status = "corrupt"
          /\ \E t, u \in store.trips : t.file = f /\ u.file = h

\* C7: when an exception reaches the driver, the store holds no row written by
\* the run; commit succeeds at most once in a run, and only after every
\* descriptor was processed.
C7_NoPartialCommit ==
    /\ commits <= 1
    /\ (commits = 1 => config > NumFiles)
    /\ ((pc = "except_driver" \/ outcome = "rolledback") =>
            RowsOfRun(store, run) = {})

C7_Witness ==
    /\ pc = "done" /\ outcome = "rolledback"
    /\ faults = {Point("commit", 0, 0, 0)}
    /\ \E f \in Files : fs[f].status = "ok" /\ Len(fs[f].rows) > 0

\* C8: after a second run on the same files with the same outcomes the three
\* tables have the sizes they had after the first run.
C8_RerunKeepsCounts ==
    (pc = "done" /\ run >= 2) => Counts(store) = prev_counts

C8_Witness ==
    /\ pc = "done" /\ run = 2 /\ outcome = "committed"
    /\ store.trips # {}
    /\ RowFaults # {}

\* C9: in the committed store the StopTimes of every Trip carry exactly the
\* stop_sequence values 1..N, once each, N being the number of stop columns
\* configured for the Trip's file.
C9_DenseStopSequence ==
    \A t \in store.trips :
        LET S == {x \in store.stop_times : x.trip_id = t.trip_id}
            N == Len(files_to_load[t.file].stops)
        IN  /\ Cardinality(S) = N
            /\ {x.stop_sequence : x \in S} = 1..N

C9_Witness ==
    /\ Committed
    /\ store.trips # {}
    /\ \E p \in faults : p.kind = "stop" /\ p.stop >= 2

\* C10: every StopTime built for a row carries the column identifier as
\* stop_name; its time is the sentinel when the column is not in the file or
\* the cell is blank or null, the string form of the cell's value otherwise,
\* and never an empty or null string.
StopTimesBuilt ==
    db.stop_times \cup {pending[k] : k \in 1..Len(pending)}

====
